---- MODULE Spec2Model ----
(***************************************************************************)
(* Focus guard: the focus-session countdown (Timer component) and the      *)
(* search handler (SearchMock component) with its relevance oracle.        *)
(*                                                                         *)
(* The two components share no state.  Spec is the session countdown,      *)
(* SearchSpec is the search handler; each leaves the other's variables     *)
(* at their initial values.                                                *)
(*                                                                         *)
(* React semantics used throughout: a handler runs to completion, the      *)
(* state it set is committed, and every effect whose dependencies changed  *)
(* is cleaned up and run again as part of that commit.  An updater passed  *)
(* to a state setter runs once per update.                                 *)
(***************************************************************************)
EXTENDS Integers, Sequences, FiniteSets, TLC

VARIABLES
    \* ---- Timer component state (useState) ----
    timeLeft,             \* remaining seconds of the countdown
    durationHours,        \* hours typed on the setup screen
    durationMinutes,      \* minutes typed on the setup screen
    initialTotalSeconds,  \* total seconds saved at start
    \* ---- Timer props owned by the parent ----
    isActive,             \* focus mode is on
    isPaused,             \* countdown is paused
    pausePending,         \* parent: pause asked for, credential check not answered yet
    \* ---- the clock source ----
    interval,             \* number of live setInterval timers of the component
    \* ---- observation of the Timer (not program state) ----
    timerOp,              \* the operation taken by the last step
    timerSignals,         \* the parent callbacks called by the last step
    timerEnds,            \* onTimerEnd calls since the last accepted start
    ticks,                \* interval callbacks run since the last accepted start
    \* ---- SearchMock props owned by the parent ----
    role,                 \* the user's role
    history,              \* the history ledger, most recent first
    \* ---- SearchMock component state (useState) ----
    query,                \* the text in the search box
    loading,              \* the loading flag
    allResults,           \* the classified result set shown
    error,                \* the error message shown, or Null
    \* ---- the oracle ----
    pending,              \* the calls of validateAndSearch that are awaited
    issued,               \* number of oracle requests issued so far
    \* ---- observation of the search handler (not program state) ----
    searchOp              \* the operation taken by the last step

timerVars == <<timeLeft, durationHours, durationMinutes, initialTotalSeconds,
               isActive, isPaused, pausePending, interval,
               timerOp, timerSignals, timerEnds, ticks>>

searchVars == <<role, history, query, loading, allResults, error, pending,
                issued, searchOp>>

vars == <<timerVars, searchVars>>

-----------------------------------------------------------------------------
(* Bounds of the model *)

\* largest value typed into the hours box
MaxHours == 1

\* largest value typed into the minutes box
MaxMinutes == 2

(* Program constants *)
SecondsPerHour == 3600
SecondsPerMinute == 60
InitialMinutes == 25
MinutesCap == 59

-----------------------------------------------------------------------------
(* Timer: pure parts *)

\* const totalSeconds = (durationHours * 3600) + (durationMinutes * 60)
TotalSeconds(h, m) == (h * SecondsPerHour) + (m * SecondsPerMinute)

\* a plausible slip of the start test: only a negative total is turned away
StartRejectedBelowZero(total) == total < 0

\* if (totalSeconds <= 0) return;
StartRejected(total) == total <= 0

\* onChange of the hours box: Math.max(0, parseInt(value) || 0)
ClampHours(v) == IF v > 0 THEN v ELSE 0

\* onChange of the minutes box: Math.max(0, Math.min(59, parseInt(value) || 0))
ClampMinutes(v) == LET low == IF v < MinutesCap THEN v ELSE MinutesCap
                   IN  IF low > 0 THEN low ELSE 0

\* if (isActive && timeLeft > 0): the running clock is rendered, else the setup screen
ClockShown == isActive /\ timeLeft > 0

\* a plausible slip of the effect's test: a pause that is only asked for
\* already stops the interval
EffectSkipsWhenPending(active, left, paused) ==
    ~active \/ left <= 0 \/ paused \/ pausePending

\* a plausible slip of the effect's test: the last second gets no interval
EffectSkipsOnLastSecond(active, left, paused) ==
    ~active \/ left <= 1 \/ paused

\* a plausible slip of the effect's test: the pause is not looked at
EffectSkipsUnlessPaused(active, left, paused) == ~active \/ left <= 0

\* if (!isActive || timeLeft <= 0 || isPaused) return;   (no interval is created)
EffectSkips(active, left, paused) == ~active \/ left <= 0 \/ paused

\* clearInterval(interval): clearing a timer that is already cleared does nothing
ClearInterval(n) == IF n > 0 THEN n - 1 ELSE 0

\* a plausible slip of the dependency list: isPaused is left out of it
RunEffectPauseNotDep(n, oldDeps, active, left, paused) ==
    IF oldDeps[1] = active /\ oldDeps[2] = left
    THEN n
    ELSE IF EffectSkips(active, left, paused)
         THEN ClearInterval(n)
         ELSE ClearInterval(n) + 1

\* a plausible slip of the effect: it returns no cleanup, the interval of the
\* previous run is left alive
RunEffectNoCleanup(n, oldDeps, active, left, paused) ==
    IF oldDeps = <<active, left, paused>>
    THEN n
    ELSE IF EffectSkips(active, left, paused)
         THEN n
         ELSE n + 1

\* The ticking effect after a commit: when a dependency (isActive, timeLeft,
\* isPaused) changed, the cleanup of the previous run clears its interval and
\* the effect body runs again; when none changed the interval stays as it is.
RunEffect(n, oldDeps, active, left, paused) ==
    IF oldDeps = <<active, left, paused>>
    THEN n
    ELSE IF EffectSkips(active, left, paused)
         THEN ClearInterval(n)
         ELSE ClearInterval(n) + 1

\* a plausible slip of the updater's test: the session ends one tick early
LastSecondEarly(prev) == prev <= 2

\* a plausible slip of the updater's test: the last tick is not seen as the last
LastSecondMissed(prev) == prev <= 0

\* the updater given to setTimeLeft: is this the last second?  (prev <= 1)
LastSecond(prev) == prev <= 1

\* a plausible slip of the updater: it takes two seconds off per tick
TickUpdaterByTwo(prev) == IF LastSecond(prev) THEN 0 ELSE prev - 2

\* the updater given to setTimeLeft: the value it returns
TickUpdater(prev) == IF LastSecond(prev) THEN 0 ELSE prev - 1

\* a plausible slip of the start: the countdown starts one above the saved total
CountdownFromAbove(totalSeconds) == totalSeconds + 1

\* setTimeLeft(totalSeconds): the value the countdown starts from
CountdownFrom(totalSeconds) == totalSeconds

\* the dependencies of the ticking effect that can change (onTimerEnd aside)
Deps == <<isActive, timeLeft, isPaused>>

-----------------------------------------------------------------------------
(* The parent of the Timer: what its callbacks do to the props it owns *)

\* onStartLock: focus mode begins, not paused
OnStartLock ==
    /\ isActive' = TRUE
    /\ isPaused' = FALSE
    /\ pausePending' = FALSE

\* onTimerEnd: the session is over, focus mode is left
OnTimerEnd ==
    /\ isActive' = FALSE
    /\ isPaused' = FALSE
    /\ pausePending' = FALSE

\* onPauseRequest: the credential is asked for; nothing is paused yet
OnPauseRequest ==
    /\ pausePending' = TRUE
    /\ UNCHANGED <<isActive, isPaused>>

\* onResumeRequest: the pause is lifted, no credential asked
OnResumeRequest ==
    /\ isPaused' = FALSE
    /\ UNCHANGED <<isActive, pausePending>>

-----------------------------------------------------------------------------
(* The session state the Timer and its parent present *)

SessionState ==
    IF ClockShown
    THEN IF isPaused THEN "Paused" ELSE "Locked"
    ELSE IF initialTotalSeconds > 0 /\ timeLeft = 0 THEN "Ended" ELSE "Idle"

-----------------------------------------------------------------------------
(* Strings: the JavaScript string methods the search handler uses *)

UpperLetters == "ABCDEFGHIJKLMNOPQRSTUVWXYZ"
LowerLetters == "abcdefghijklmnopqrstuvwxyz"

\* the characters String.prototype.trim removes (those that occur in the model)
WhiteSpace == {" ", "\t"}

CharAt(s, i) == SubSeq(s, i, i)

\* the lower-case letter of each upper-case letter
LowerOf ==
    [c \in {CharAt(UpperLetters, i) : i \in 1..Len(UpperLetters)} |->
        LET i == CHOOSE j \in 1..Len(UpperLetters) : CharAt(UpperLetters, j) = c
        IN  CharAt(LowerLetters, i)]

LowerChar(c) == IF c \in DOMAIN LowerOf THEN LowerOf[c] ELSE c

\* s.toLowerCase()
RECURSIVE toLowerCase(_)
toLowerCase(s) ==
    IF Len(s) = 0 THEN ""
    ELSE LowerChar(CharAt(s, 1)) \o toLowerCase(SubSeq(s, 2, Len(s)))

\* s.includes(t)
includes(s, t) ==
    \E i \in 1..(Len(s) - Len(t) + 1) : SubSeq(s, i, i + Len(t) - 1) = t

\* s.endsWith(t)
endsWith(s, t) ==
    /\ Len(t) <= Len(s)
    /\ SubSeq(s, Len(s) - Len(t) + 1, Len(s)) = t

RECURSIVE trimStart(_)
trimStart(s) ==
    IF Len(s) > 0 /\ CharAt(s, 1) \in WhiteSpace
    THEN trimStart(SubSeq(s, 2, Len(s)))
    ELSE s

RECURSIVE trimEnd(_)
trimEnd(s) ==
    IF Len(s) > 0 /\ CharAt(s, Len(s)) \in WhiteSpace
    THEN trimEnd(SubSeq(s, 1, Len(s) - 1))
    ELSE s

\* s.trim()
trim(s) == trimEnd(trimStart(s))

-----------------------------------------------------------------------------
(* Search: data *)

\* UserRole
Roles == {"UNSET", "RESEARCHER", "STUDENT", "TEACHER"}

\* BLOCKED_TLDS and BLOCKED_SITES of ../constants
BLOCKED_TLDS == {".xyz", ".biz"}
BLOCKED_SITES == {"tiktok.com", "facebook.com"}

\* error === null
Null == "<null>"

\* setError('Search failed. Please try again later.')
SearchFailed == "Search failed. Please try again later."

\* the texts typed into the search box
Queries == {"", "  ", "ai", " ai ", "AI Video"}

\* links the oracle suggests
LinkEdu == [title |-> "MIT AI", url |-> "https://MIT.edu/ai",
            snippet |-> "course", thumbnailUrl |-> "https://img/1.jpg"]
LinkTube == [title |-> "Lecture", url |-> "https://YouTube.com/watch",
             snippet |-> "video", thumbnailUrl |-> ""]
LinkLearning == [title |-> "Learning", url |-> "https://youtube.com/learning",
                 snippet |-> "channel", thumbnailUrl |-> ""]
LinkXyz == [title |-> "Spam", url |-> "https://ai.example.XYZ",
            snippet |-> "ad", thumbnailUrl |-> ""]

\* what a call of validateAndSearch can come back with: a parsed reply
\* (isValid, reason, suggestedLinks or no suggestedLinks), or a throw: the
\* request failed ("failed"), or JSON.parse threw on the text ("unparseable")
Reply(valid, reason, hasLinks, links) ==
    [kind |-> "reply", isValid |-> valid, reason |-> reason,
     hasLinks |-> hasLinks, suggestedLinks |-> links]

Thrown(kind) ==
    [kind |-> kind, isValid |-> FALSE, reason |-> "",
     hasLinks |-> FALSE, suggestedLinks |-> <<>>]

NoResponse ==
    [kind |-> "none", isValid |-> FALSE, reason |-> "",
     hasLinks |-> FALSE, suggestedLinks |-> <<>>]

Responses ==
    { Reply(FALSE, "Not relevant to your role.", TRUE, <<>>),
      Reply(TRUE, "ok", TRUE, <<LinkEdu, LinkTube>>),
      Reply(TRUE, "ok", TRUE, <<LinkXyz, LinkLearning, LinkEdu>>),
      Reply(TRUE, "ok", FALSE, <<>>),
      Thrown("failed"),
      Thrown("unparseable") }

\* the ledgers the parent can hand over at construction (loaded from its store)
PersistedHistories == {<<>>, <<"ai">>}

-----------------------------------------------------------------------------
(* Search: pure parts *)

\* const searchQuery = explicitQuery || query   ("" stands for no explicitQuery)
SearchQueryOf(explicitQuery, typed) ==
    IF explicitQuery # "" THEN explicitQuery ELSE typed

\* a plausible slip of the empty-box test: the query is not trimmed
IsBlankUntrimmed(searchQuery) == searchQuery = ""

\* if (!searchQuery.trim()) return;
IsBlank(searchQuery) == trim(searchQuery) = ""

\* const isBlockedTLD = BLOCKED_TLDS.some(tld => url.endsWith(tld))
IsBlockedTLD(url) == \E tld \in BLOCKED_TLDS : endsWith(url, tld)

\* const isBlockedSite = BLOCKED_SITES.some(site => url.includes(site))
IsBlockedSite(url) == \E site \in BLOCKED_SITES : includes(url, site)

\* a plausible slip of the video-host test: the short host is forgotten
IsYoutubeLongHostOnly(url) == includes(url, "youtube.com")

\* const isYoutube = url.includes('youtube.com') || url.includes('youtu.be')
IsYoutube(url) == includes(url, "youtube.com") \/ includes(url, "youtu.be")

\* const isLearningPath = url.includes('youtube.com/learning')
IsLearningPath(url) == includes(url, "youtube.com/learning")

\* a plausible slip of the role test: students are left out
IsAllowedRoleTeacherOnly(r) == r = "TEACHER"

\* const isAllowedRole = role === UserRole.STUDENT || role === UserRole.TEACHER
IsAllowedRole(r) == r = "STUDENT" \/ r = "TEACHER"

\* const isExplicitVideoSearch = searchQuery.toLowerCase().includes('video')
\*                            || searchQuery.toLowerCase().includes('youtube')
IsExplicitVideoSearch(searchQuery) ==
    \/ includes(toLowerCase(searchQuery), "video")
    \/ includes(toLowerCase(searchQuery), "youtube")

\* const allowYoutubeException = isAllowedRole && (isLearningPath || isExplicitVideoSearch)
AllowYoutubeException(url, searchQuery, r) ==
    IsAllowedRole(r) /\ (IsLearningPath(url) \/ IsExplicitVideoSearch(searchQuery))

\* a plausible slip of the block test: the video exception lifts every block
IsBlockedUnlessException(url, searchQuery, r) ==
    /\ IsBlockedTLD(url) \/ IsBlockedSite(url) \/ IsYoutube(url)
    /\ ~AllowYoutubeException(url, searchQuery, r)

\* let isBlocked = isBlockedTLD || isBlockedSite || (isYoutube && !allowYoutubeException)
IsBlocked(url, searchQuery, r) ==
    \/ IsBlockedTLD(url)
    \/ IsBlockedSite(url)
    \/ IsYoutube(url) /\ ~AllowYoutubeException(url, searchQuery, r)

\* a plausible slip of the trust test: the suffix of the url is looked at
IsTrustedBySuffix(url) ==
    endsWith(url, ".gov") \/ endsWith(url, ".edu") \/ endsWith(url, ".org")

\* isTrusted: url.includes('.gov') || url.includes('.edu') || url.includes('.org')
IsTrusted(url) ==
    includes(url, ".gov") \/ includes(url, ".edu") \/ includes(url, ".org")

\* a plausible slip of the mapping: the lower-cased copy of the url is kept
ClassifyKeepsLowered(link, searchQuery, r) ==
    LET url == toLowerCase(link.url)
        isBlocked == IsBlocked(url, searchQuery, r)
    IN  [title |-> link.title, url |-> url, snippet |-> link.snippet,
         thumbnailUrl |-> link.thumbnailUrl,
         isTrusted |-> IsTrusted(url),
         isBlocked |-> isBlocked,
         blockReason |-> IF isBlocked THEN "Restricted by focus filter." ELSE ""]

\* the filtering logic applied to one suggested link
Classify(link, searchQuery, r) ==
    LET url == toLowerCase(link.url)
        isBlocked == IsBlocked(url, searchQuery, r)
    IN  [title |-> link.title, url |-> link.url, snippet |-> link.snippet,
         thumbnailUrl |-> link.thumbnailUrl,
         isTrusted |-> IsTrusted(url),
         isBlocked |-> isBlocked,
         blockReason |-> IF isBlocked THEN "Restricted by focus filter." ELSE ""]

\* aiResponse.suggestedLinks.map(link => ...)
ClassifyAll(links, searchQuery, r) ==
    [i \in 1..Len(links) |-> Classify(links[i], searchQuery, r)]

\* the entries of the ledger other than q
RECURSIVE Without(_, _)
Without(h, q) ==
    IF h = <<>> THEN <<>>
    ELSE IF Head(h) = q THEN Without(Tail(h), q)
         ELSE <<Head(h)>> \o Without(Tail(h), q)

\* a plausible slip of the ledger: queries are compared and kept untrimmed
AddHistoryUntrimmed(h, q) == <<q>> \o Without(h, q)

\* the parent's onAddHistory: the trimmed query becomes the most recent entry,
\* and the ledger keeps one entry per query
AddHistory(h, q) == <<trim(q)>> \o Without(h, trim(q))

\* the queries of the ledger, as a set
HistorySet == {history[i] : i \in 1..Len(history)}

-----------------------------------------------------------------------------
(* Bound of the search model *)

\* oracle requests issued in one run
MaxSearches == 2

-----------------------------------------------------------------------------
(* After construction *)

InitTimer ==
    /\ timeLeft = 0
    /\ durationHours = 0
    /\ durationMinutes = InitialMinutes
    /\ initialTotalSeconds = 0
    /\ isActive = FALSE
    /\ isPaused = FALSE
    /\ pausePending = FALSE
    /\ interval = 0
    /\ timerOp = "init"
    /\ timerSignals = {}
    /\ timerEnds = 0
    /\ ticks = 0

InitSearch ==
    /\ query = ""
    /\ loading = FALSE
    /\ allResults = <<>>
    /\ error = Null
    /\ pending = {}
    /\ issued = 0
    /\ searchOp = [op |-> "init", id |-> 0, q |-> "", resp |-> NoResponse, adds |-> 0]

\* the session countdown, the search component idle beside it
Init == InitTimer /\ InitSearch /\ role = "UNSET" /\ history = <<>>

\* the search component under any role and any ledger handed over, the
\* countdown idle beside it
SearchInit ==
    InitTimer /\ InitSearch /\ role \in Roles /\ history \in PersistedHistories

-----------------------------------------------------------------------------
(* Timer: actions *)

\* typing in the hours box of the setup screen
SetDurationHours(v) ==
    /\ ~ClockShown
    /\ durationHours' = ClampHours(v)
    /\ timerOp' = "setHours"
    /\ timerSignals' = {}
    /\ UNCHANGED <<timeLeft, durationMinutes, initialTotalSeconds, isActive,
                   isPaused, pausePending, interval, timerEnds, ticks>>
    /\ UNCHANGED searchVars

\* typing in the minutes box of the setup screen
SetDurationMinutes(v) ==
    /\ ~ClockShown
    /\ durationMinutes' = ClampMinutes(v)
    /\ timerOp' = "setMinutes"
    /\ timerSignals' = {}
    /\ UNCHANGED <<timeLeft, durationHours, initialTotalSeconds, isActive,
                   isPaused, pausePending, interval, timerEnds, ticks>>
    /\ UNCHANGED searchVars

\* the "Start Deep Focus" button of the setup screen
StartTimer ==
    LET totalSeconds == TotalSeconds(durationHours, durationMinutes) IN
    /\ ~ClockShown
    /\ timerOp' = "start"
    /\ IF StartRejected(totalSeconds)
       THEN /\ timerSignals' = {}
            /\ UNCHANGED <<timeLeft, initialTotalSeconds, isActive, isPaused,
                           pausePending, interval, timerEnds, ticks>>
       ELSE /\ initialTotalSeconds' = totalSeconds
            /\ timeLeft' = CountdownFrom(totalSeconds)
            /\ timerSignals' = {"onStartLock"}
            /\ OnStartLock
            /\ interval' = RunEffect(interval, Deps, isActive', timeLeft', isPaused')
            /\ timerEnds' = 0
            /\ ticks' = 0
    /\ UNCHANGED <<durationHours, durationMinutes>>
    /\ UNCHANGED searchVars

\* a plausible slip of the callback: the saved total is written along with the
\* countdown
TickShrinksTotal ==
    /\ interval > 0
    /\ timerOp' = "tick"
    /\ ticks' = ticks + 1
    /\ timeLeft' = TickUpdater(timeLeft)
    /\ initialTotalSeconds' = timeLeft'
    /\ IF LastSecond(timeLeft)
       THEN /\ timerSignals' = {"onTimerEnd"}
            /\ timerEnds' = timerEnds + 1
            /\ OnTimerEnd
            /\ interval' = RunEffect(ClearInterval(interval), Deps,
                                     isActive', timeLeft', isPaused')
       ELSE /\ timerSignals' = {}
            /\ UNCHANGED <<isActive, isPaused, pausePending, timerEnds>>
            /\ interval' = RunEffect(interval, Deps,
                                     isActive', timeLeft', isPaused')
    /\ UNCHANGED <<durationHours, durationMinutes>>
    /\ UNCHANGED searchVars

\* the setInterval callback: setTimeLeft(updater); on the last second the
\* updater clears its interval and calls onTimerEnd
Tick ==
    /\ interval > 0
    /\ timerOp' = "tick"
    /\ ticks' = ticks + 1
    /\ timeLeft' = TickUpdater(timeLeft)
    /\ IF LastSecond(timeLeft)
       THEN /\ timerSignals' = {"onTimerEnd"}
            /\ timerEnds' = timerEnds + 1
            /\ OnTimerEnd
            /\ interval' = RunEffect(ClearInterval(interval), Deps,
                                     isActive', timeLeft', isPaused')
       ELSE /\ timerSignals' = {}
            /\ UNCHANGED <<isActive, isPaused, pausePending, timerEnds>>
            /\ interval' = RunEffect(interval, Deps,
                                     isActive', timeLeft', isPaused')
    /\ UNCHANGED <<durationHours, durationMinutes, initialTotalSeconds>>
    /\ UNCHANGED searchVars

\* the button of the running clock while not paused ("Pause Focus")
PauseRequest ==
    /\ ClockShown
    /\ ~isPaused
    /\ timerOp' = "pauseRequest"
    /\ timerSignals' = {"onPauseRequest"}
    /\ OnPauseRequest
    /\ interval' = RunEffect(interval, Deps, isActive', timeLeft, isPaused')
    /\ UNCHANGED <<timeLeft, durationHours, durationMinutes, initialTotalSeconds,
                   timerEnds, ticks>>
    /\ UNCHANGED searchVars

\* the credential check answers yes: the parent sets isPaused
VerifyOk ==
    /\ pausePending
    /\ timerOp' = "verifyOk"
    /\ timerSignals' = {}
    /\ pausePending' = FALSE
    /\ isPaused' = TRUE
    /\ interval' = RunEffect(interval, Deps, isActive, timeLeft, isPaused')
    /\ UNCHANGED <<timeLeft, durationHours, durationMinutes, initialTotalSeconds,
                   isActive, timerEnds, ticks>>
    /\ UNCHANGED searchVars

\* the credential check answers no: the parent drops the request
VerifyFail ==
    /\ pausePending
    /\ timerOp' = "verifyFail"
    /\ timerSignals' = {"pauseError"}
    /\ pausePending' = FALSE
    /\ UNCHANGED <<timeLeft, durationHours, durationMinutes, initialTotalSeconds,
                   isActive, isPaused, interval, timerEnds, ticks>>
    /\ UNCHANGED searchVars

\* the button of the running clock while paused ("Resume Session")
ResumeRequest ==
    /\ ClockShown
    /\ isPaused
    /\ timerOp' = "resume"
    /\ timerSignals' = {"onResumeRequest"}
    /\ OnResumeRequest
    /\ interval' = RunEffect(interval, Deps, isActive', timeLeft, isPaused')
    /\ UNCHANGED <<timeLeft, durationHours, durationMinutes, initialTotalSeconds,
                   timerEnds, ticks>>
    /\ UNCHANGED searchVars

Next ==
    \/ \E v \in -1..MaxHours : SetDurationHours(v)
    \/ \E v \in -1..MaxMinutes : SetDurationMinutes(v)
    \/ StartTimer
    \/ Tick
    \/ PauseRequest
    \/ VerifyOk
    \/ VerifyFail
    \/ ResumeRequest

Spec == Init /\ [][Next]_vars

\* The session with its scheduling. A live interval fires: setInterval calls
\* its callback a second after the effect created it, so a session that is
\* Locked again and again is ticked again and again (strong fairness, since a
\* pause takes the interval away for a while). A paused session is resumed:
\* the user presses the Resume button, the only command the paused clock
\* offers.
FairSpec ==
    /\ Init
    /\ [][Next]_vars
    /\ SF_vars(Tick)
    /\ WF_vars(ResumeRequest)

-----------------------------------------------------------------------------
(* Search: actions *)

\* typing in the search box: setQuery(e.target.value)
SetQuery(q) ==
    /\ query' = q
    /\ searchOp' = [op |-> "type", id |-> 0, q |-> q, resp |-> NoResponse, adds |-> 0]
    /\ UNCHANGED <<role, history, loading, allResults, error, pending, issued>>
    /\ UNCHANGED timerVars

\* a plausible slip of the reply handling: the query is recorded before the
\* oracle's verdict is looked at
RecordsQueryAlways(r) == r.kind = "reply"

\* the reply passes "if (!aiResponse.isValid) ... return" and reaches onAddHistory
RecordsQuery(r) == r.kind = "reply" /\ r.isValid

\* handleSearch up to its await: the empty-box test, the resets, and the call
\* of validateAndSearch, which is one request to the oracle
HandleSearch(explicitQuery, op) ==
    LET searchQuery == SearchQueryOf(explicitQuery, query) IN
    IF IsBlank(searchQuery)
    THEN /\ searchOp' = [op |-> op, id |-> 0, q |-> searchQuery,
                         resp |-> NoResponse, adds |-> 0]
         /\ UNCHANGED <<role, history, query, loading, allResults, error,
                        pending, issued>>
    ELSE /\ issued < MaxSearches
         /\ searchOp' = [op |-> op, id |-> issued + 1, q |-> searchQuery,
                         resp |-> NoResponse, adds |-> 0]
         /\ loading' = TRUE
         /\ error' = Null
         /\ allResults' = <<>>
         /\ query' = IF explicitQuery = "" THEN searchQuery ELSE query
         /\ issued' = issued + 1
         /\ pending' = pending \cup
                {[id |-> issued + 1, searchQuery |-> searchQuery,
                  resultsAtIssue |-> allResults, historyAtIssue |-> history]}
         /\ UNCHANGED <<role, history>>

\* the Search button, or Enter in the search box; the button is disabled
\* while loading
SubmitForm ==
    /\ ~loading
    /\ HandleSearch("", "submit")
    /\ UNCHANGED timerVars

\* an entry of the history, in the "Recent" row or in the history panel:
\* handleSearch(undefined, h), whatever the loading flag
ClickHistory(h) ==
    /\ HandleSearch(h, "historyClick")
    /\ UNCHANGED timerVars

\* a plausible slip of the catch block: the error is swallowed
CaughtErrorSwallowed(current) == current

\* catch (err) { setError('Search failed. Please try again later.') }
CaughtError(current) == SearchFailed

\* handleSearch after its await, for the awaited call c coming back with r
OracleReturns(c, r) ==
    /\ pending' = pending \ {c}
    /\ searchOp' = [op |-> "return", id |-> c.id, q |-> c.searchQuery, resp |-> r,
                    adds |-> IF RecordsQuery(r) THEN 1 ELSE 0]
    /\ IF r.kind # "reply"
       THEN \* catch: the call threw
            /\ error' = CaughtError(error)
            /\ UNCHANGED <<history, allResults>>
       ELSE IF ~RecordsQuery(r)
       THEN \* setError(aiResponse.reason); setLoading(false); return
            /\ error' = r.reason
            /\ UNCHANGED <<history, allResults>>
       ELSE /\ history' = AddHistory(history, c.searchQuery)
            /\ IF r.hasLinks
               THEN /\ allResults' = ClassifyAll(r.suggestedLinks, c.searchQuery, role)
                    /\ UNCHANGED error
               ELSE \* suggestedLinks.map on a missing list throws: catch
                    /\ error' = CaughtError(error)
                    /\ UNCHANGED allResults
    \* finally: setLoading(false)
    /\ loading' = FALSE
    /\ UNCHANGED <<role, query, issued>>
    /\ UNCHANGED timerVars

SearchNext ==
    \/ \E q \in Queries : SetQuery(q)
    \/ SubmitForm
    \/ \E h \in HistorySet : ClickHistory(h)
    \/ \E c \in pending : \E r \in Responses : OracleReturns(c, r)

SearchSpec == SearchInit /\ [][SearchNext]_vars

-----------------------------------------------------------------------------
(* Search: the filtering logic over one suggested link at a time *)

\* what the user types when the filter is exercised: a plain query, queries
\* with video intent in either case, and one that only looks like it
FilterQueries == {"ai", "AI Video", "My YOUTUBE", "vide o"}

Link(title, url) ==
    [title |-> title, url |-> url, snippet |-> "", thumbnailUrl |-> ""]

\* the urls the oracle can suggest: plain, trusted, video host (long and
\* short), learning path, blocked TLD, blocked site, and their overlaps
FilterLinks ==
    { LinkEdu, LinkTube, LinkLearning, LinkXyz,
      Link("Short", "https://youtu.be/abc"),
      Link("Clips", "https://www.TikTok.com/ai"),
      Link("Promo", "https://youtube.com/learning?ref=promo.biz"),
      Link("WHO", "https://who.int/ai"),
      Link("Results", "https://youtube.com/results.xyz"),
      Link("Group", "https://facebook.com/videos.org") }

\* the search component under any role, with an empty ledger
FilterInit == InitTimer /\ InitSearch /\ role \in Roles /\ history = <<>>

\* type a query, submit it, and the oracle validates it with one link
FilterNext ==
    \/ \E q \in FilterQueries : SetQuery(q)
    \/ SubmitForm
    \/ \E c \in pending : \E l \in FilterLinks :
           OracleReturns(c, Reply(TRUE, "ok", TRUE, <<l>>))

FilterSpec == FilterInit /\ [][FilterNext]_vars

-----------------------------------------------------------------------------
(* Claims about the session countdown, checked under Spec *)

\* C1: after an accepted start of n > 0 seconds, after k ticks the countdown
\* stands at n - k; while k < n and the session is not paused it is Locked;
\* it is Ended, at 0, exactly when k = n: not after fewer ticks, and no tick
\* follows the n-th.
C1_CountdownExact ==
    initialTotalSeconds > 0 =>
        /\ ticks <= initialTotalSeconds
        /\ timeLeft = initialTotalSeconds - ticks
        /\ (ticks < initialTotalSeconds /\ ~isPaused => SessionState = "Locked")
        /\ (ticks = initialTotalSeconds <=> SessionState = "Ended")

\* the n-th tick of a session of n seconds has just run
C1_Witness ==
    /\ timerOp = "tick"
    /\ initialTotalSeconds = SecondsPerMinute
    /\ ticks = initialTotalSeconds
    /\ timeLeft = 0
    /\ SessionState = "Ended"

\* C2: onTimerEnd has been called once since the start when the countdown
\* stands at 0 and not at all while it is above 0; the step that calls it is
\* the tick that brings the countdown to 0.
C2_EndSignalOnce ==
    /\ initialTotalSeconds > 0 =>
           timerEnds = IF timeLeft = 0 THEN 1 ELSE 0
    /\ "onTimerEnd" \in timerSignals =>
           timerOp = "tick" /\ timeLeft = 0 /\ timerEnds = 1

\* the tick that ends a two-minute session has just run and called onTimerEnd
C2_Witness ==
    /\ "onTimerEnd" \in timerSignals
    /\ timerEnds = 1
    /\ timeLeft = 0
    /\ ~isActive
    /\ interval = 0
    /\ initialTotalSeconds = 2 * SecondsPerMinute

\* C3: no step taken while the session is paused changes the countdown or
\* counts as a tick, and every step that changes the countdown other than a
\* start takes exactly one second off it.
C3_NoTickWhilePaused ==
    [][ /\ isPaused => (timeLeft' = timeLeft /\ ticks' = ticks)
        /\ (timeLeft' # timeLeft /\ timerOp' # "start") =>
               (timeLeft' = timeLeft - 1 /\ ticks' = ticks + 1) ]_vars

\* the pause took effect in the middle of a countdown and was then lifted
C3_Witness ==
    /\ timerOp = "resume"
    /\ SessionState = "Locked"
    /\ ticks > 0
    /\ timeLeft = initialTotalSeconds - ticks
    /\ interval = 1

\* C4: a failed credential check leaves the session Locked and the countdown
\* where it was, with the clock source live, and the tick that follows it takes
\* exactly one second off.
C4_FailedPauseKeepsLocked ==
    [][ /\ timerOp' = "verifyFail" =>
               /\ SessionState' = "Locked"
               /\ ~isPaused'
               /\ timeLeft' = timeLeft
               /\ interval' = 1
        /\ (timerOp = "verifyFail" /\ timerOp' = "tick") =>
               timeLeft' = timeLeft - 1 ]_vars

\* a credential check has just failed in the middle of a countdown, and the
\* clock source is live for the next tick
C4_Witness ==
    /\ timerOp = "verifyFail"
    /\ SessionState = "Locked"
    /\ ~pausePending
    /\ ticks > 0
    /\ timeLeft = initialTotalSeconds - ticks
    /\ interval = 1

\* C5: pressing start with a total of 0 seconds changes nothing: the session
\* stays as it was (Idle, or Ended), the countdown and the saved total keep
\* their values, and onStartLock is not called.
C5_ZeroStartRejected ==
    [][ (timerOp' = "start" /\ TotalSeconds(durationHours, durationMinutes) <= 0) =>
            /\ SessionState' = SessionState
            /\ SessionState' \in {"Idle", "Ended"}
            /\ timeLeft' = timeLeft
            /\ initialTotalSeconds' = initialTotalSeconds
            /\ isActive' = isActive
            /\ interval' = interval
            /\ "onStartLock" \notin timerSignals' ]_vars

\* start was pressed with 0h 0m
C5_Witness ==
    /\ timerOp = "start"
    /\ TotalSeconds(durationHours, durationMinutes) = 0
    /\ SessionState = "Idle"
    /\ ~isActive

\* C6: the countdown is never below 0 nor above the total saved at start.
C6_RemainingWithinTotal ==
    /\ 0 <= timeLeft
    /\ timeLeft <= initialTotalSeconds

\* a countdown strictly between its ends, after a pause
C6_Witness ==
    /\ 0 < timeLeft
    /\ timeLeft < initialTotalSeconds
    /\ isPaused

-----------------------------------------------------------------------------
(* Claims about the search handler, checked under SearchSpec *)

\* the reply breaks the schema: valid without suggestedLinks, or not parseable
Malformed(r) ==
    \/ r.kind = "unparseable"
    \/ r.kind = "reply" /\ r.isValid /\ ~r.hasLinks

\* C7: when a call comes back after a newer search was issued, its reply is
\* dropped: the result set, the error and the ledger stay as they are.
C7_StaleReplyDropped ==
    [][ \A c \in pending :
            (c \notin pending' /\ c.id < issued) =>
                /\ allResults' = allResults
                /\ error' = error
                /\ history' = history ]_vars

\* C8: when a call comes back with a malformed reply, an error is shown and
\* the result set and the ledger are what they were when that search was issued.
C8_MalformedLeavesState ==
    [][ \A c \in pending :
            (c \notin pending' /\ Malformed(searchOp'.resp)) =>
                /\ error' # Null
                /\ allResults' = c.resultsAtIssue
                /\ history' = c.historyAtIssue ]_vars

\* C9: issuing a search does not touch the ledger; when its call comes back,
\* the ledger is written once (the query becomes its most recent entry) if the
\* reply says isValid, and not at all otherwise; a reply that says not valid
\* puts its reason in the error.
C9_HistoryOncePerValidated ==
    [][ /\ \A c \in pending :
               c \notin pending' =>
                   LET r == searchOp'.resp IN
                   /\ (r.kind = "reply" /\ r.isValid) =>
                          /\ searchOp'.adds = 1
                          /\ history' = AddHistory(history, c.searchQuery)
                   /\ ~(r.kind = "reply" /\ r.isValid) =>
                          /\ searchOp'.adds = 0
                          /\ history' = history
                   /\ (r.kind = "reply" /\ ~r.isValid) => error' = r.reason
        /\ searchOp'.op \in {"submit", "historyClick"} =>
               /\ searchOp'.adds = 0
               /\ history' = history ]_vars

\* a call has just come back rejected: the reason is shown, the ledger of one
\* earlier validated search is as it was
C9_Witness ==
    /\ searchOp.op = "return"
    /\ searchOp.resp.kind = "reply"
    /\ ~searchOp.resp.isValid
    /\ searchOp.adds = 0
    /\ error = searchOp.resp.reason
    /\ issued = 2
    /\ history = <<"AI Video">>

\* C10: a search whose query trims to empty issues no oracle request and
\* leaves the ledger, the result set, the error and the loading flag alone.
C10_BlankQueryIgnored ==
    [][ (searchOp'.op \in {"submit", "historyClick"} /\ trim(searchOp'.q) = "") =>
            /\ pending' = pending
            /\ issued' = issued
            /\ history' = history
            /\ allResults' = allResults
            /\ error' = error
            /\ loading' = loading ]_vars

\* the Search button was pressed on a box holding only spaces, under the
\* results of an earlier search
C10_Witness ==
    /\ searchOp.op = "submit"
    /\ searchOp.q = "  "
    /\ query = "  "
    /\ allResults # <<>>
    /\ issued = 1
    /\ pending = {}
    /\ ~loading

\* C11: under role UNSET no step issues an oracle request or writes the
\* ledger: a search with a non-empty query is turned away before the oracle.
C11_UnsetRoleRejected ==
    [][ role = "UNSET" =>
            /\ issued' = issued
            /\ pending' = pending
            /\ history' = history ]_vars


\* C12: the ledger never holds two entries that are equal after trimming, and
\* once a validated search has come back its query has exactly one entry,
\* also when an earlier validated search had the same query up to trimming.
C12_OneEntryPerQuery ==
    /\ \A i, j \in DOMAIN history :
           trim(history[i]) = trim(history[j]) => i = j
    /\ (searchOp.op = "return" /\ searchOp.resp.kind = "reply"
            /\ searchOp.resp.isValid) =>
           Cardinality({i \in DOMAIN history :
                            trim(history[i]) = trim(searchOp.q)}) = 1

\* the second of two validated searches, for " ai " after "ai", has come back
C12_Witness ==
    /\ searchOp.op = "return"
    /\ searchOp.resp.kind = "reply"
    /\ searchOp.resp.isValid
    /\ searchOp.q = " ai "
    /\ searchOp.id = 2
    /\ pending = {}
    /\ history = <<"ai">>


-----------------------------------------------------------------------------
(* Content filter *)

\* the results on screen are those of the search that has just returned
ResultsShown == searchOp.op = "return" /\ Len(allResults) > 0

\* C13: every result whose lower-cased url ends with a blocked TLD suffix or
\* contains a blocked-site substring is blocked, under every role and every
\* query: the video exception never lifts a TLD or site block.
C13_TldSiteBlockAbsolute ==
    \A i \in DOMAIN allResults :
        LET url == toLowerCase(allResults[i].url) IN
        ((\E tld \in BLOCKED_TLDS : endsWith(url, tld))
            \/ (\E site \in BLOCKED_SITES : includes(url, site)))
        => allResults[i].isBlocked

\* a TEACHER asked for video and was offered a video-host link under a blocked
\* TLD: the exception applies to the link, and the link is shown blocked
C13_Witness ==
    /\ ResultsShown
    /\ role = "TEACHER"
    /\ searchOp.q = "AI Video"
    /\ allResults[1].url = "https://youtube.com/results.xyz"
    /\ allResults[1].isBlocked


\* a result is a video-host link with the learning path
OnLearningPath(res) == includes(toLowerCase(res.url), "youtube.com/learning")

\* a result falls under the TLD blocklist or the site blocklist
OnBlocklist(res) ==
    \/ \E tld \in BLOCKED_TLDS : endsWith(toLowerCase(res.url), tld)
    \/ \E site \in BLOCKED_SITES : includes(toLowerCase(res.url), site)

\* C14 as stated: for role STUDENT or TEACHER every result that is a YouTube
\* link with path /learning is not blocked, whatever the query.
C14_LearningNeverBlocked ==
    role \in {"STUDENT", "TEACHER"} =>
        \A i \in DOMAIN allResults :
            OnLearningPath(allResults[i]) => ~allResults[i].isBlocked

\* C14 amended: for role STUDENT or TEACHER every result that is a YouTube
\* link with path /learning, and that neither ends with a blocked TLD suffix
\* nor contains a blocked-site substring, is not blocked, whatever the query.
C14_LearningAllowedOffBlocklist ==
    role \in {"STUDENT", "TEACHER"} =>
        \A i \in DOMAIN allResults :
            (OnLearningPath(allResults[i]) /\ ~OnBlocklist(allResults[i]))
                => ~allResults[i].isBlocked

\* a STUDENT searched without video intent and is shown the learning link open
C14_Witness ==
    /\ ResultsShown
    /\ role = "STUDENT"
    /\ searchOp.q = "ai"
    /\ allResults[1].url = "https://youtube.com/learning"
    /\ ~allResults[1].isBlocked


\* a result is a link to the video host, under its long or its short name
OnVideoHost(res) ==
    \/ includes(toLowerCase(res.url), "youtube.com")
    \/ includes(toLowerCase(res.url), "youtu.be")

\* the query, lower-cased, asks for video
VideoIntent(q) ==
    includes(toLowerCase(q), "video") \/ includes(toLowerCase(q), "youtube")

\* C15: under every role, a result that is a YouTube link (youtube.com or
\* youtu.be) without the learning path is blocked when the lower-cased query
\* contains neither "video" nor "youtube".
C15_VideoBlockedWithoutIntent ==
    (searchOp.op = "return" /\ ~VideoIntent(searchOp.q)) =>
        \A i \in DOMAIN allResults :
            (OnVideoHost(allResults[i]) /\ ~OnLearningPath(allResults[i]))
                => allResults[i].isBlocked

\* a TEACHER whose query only resembles "video" is shown the short-host link
\* blocked
C15_Witness ==
    /\ ResultsShown
    /\ role = "TEACHER"
    /\ searchOp.q = "vide o"
    /\ allResults[1].url = "https://youtu.be/abc"
    /\ allResults[1].isBlocked


-----------------------------------------------------------------------------
(* Oracle failure *)

\* C16: when the oracle call fails, the handler shows the "search failed"
\* error, sends no further request (the failed call leaves the awaited set and
\* nothing is issued in its place) and leaves the ledger as it was; and every
\* request is issued by one accepted search, one request each.
C16_FailureSurfacedNoRetry ==
    [][ /\ (pending' # pending /\ searchOp'.op = "return"
                /\ searchOp'.resp.kind = "failed") =>
               /\ error' = "Search failed. Please try again later."
               /\ ~loading'
               /\ history' = history
               /\ issued' = issued
               /\ pending' \subseteq pending
               /\ Cardinality(pending') = Cardinality(pending) - 1
        /\ issued' # issued =>
               /\ searchOp'.op \in {"submit", "historyClick"}
               /\ issued' = issued + 1
               /\ Cardinality(pending') = Cardinality(pending) + 1 ]_vars

\* the only search made has failed: the error is on screen, nothing is
\* awaited, one request was sent, and the ledger handed over is untouched
C16_Witness ==
    /\ searchOp.op = "return"
    /\ searchOp.resp.kind = "failed"
    /\ error = SearchFailed
    /\ issued = 1
    /\ pending = {}
    /\ history = <<"ai">>
    /\ ~loading


-----------------------------------------------------------------------------
(* Session commands *)

\* C17: resume is taken only from Paused and brings the session back to Locked
\* with no credential check started; the remaining seconds do not move while
\* the session is paused nor on the resume itself, the interval is live again,
\* and the first tick after the resume takes one second off that value.
C17_ResumeKeepsRemaining ==
    [][ /\ (timerOp' = "resume" /\ timerSignals' = {"onResumeRequest"}
                /\ isPaused # isPaused') =>
               /\ SessionState = "Paused"
               /\ SessionState' = "Locked"
               /\ ~pausePending /\ ~pausePending'
               /\ timeLeft' = timeLeft
               /\ interval = 0 /\ interval' = 1
        /\ isPaused => timeLeft' = timeLeft
        /\ (timerOp = "resume" /\ timerOp' = "tick") =>
               /\ timeLeft > 0
               /\ timeLeft' = timeLeft - 1 ]_vars

\* a session that ticked, was paused and has just been resumed: Locked, the
\* interval live, and no second lost over the pause
C17_Witness ==
    /\ timerOp = "resume"
    /\ SessionState = "Locked"
    /\ ticks > 0
    /\ timeLeft = initialTotalSeconds - ticks
    /\ interval = 1
    /\ ~pausePending


\* the session state, the remaining and the total seconds stay as they are
SessionUntouched ==
    /\ SessionState' = SessionState
    /\ timeLeft' = timeLeft
    /\ initialTotalSeconds' = initialTotalSeconds

-----------------------------------------------------------------------------
(* The interval *)

\* C19: at most one interval is live at any moment, exactly one while the
\* session is Locked (remaining seconds above zero) and none otherwise; and
\* however often the interval was cleared and created again (after each tick,
\* on pause, on resume), the seconds taken off equal the callbacks that fired:
\* none counted twice, none skipped.
C19_OneIntervalNoMiscount ==
    /\ interval \in {0, 1}
    /\ interval = 1 <=> (SessionState = "Locked" /\ timeLeft > 0)
    /\ timeLeft + ticks = initialTotalSeconds
    /\ timerEnds <= 1

\* the interval has been recreated after the second tick of a session and is
\* the only one live
C19_Witness ==
    /\ timerOp = "tick"
    /\ SessionState = "Locked"
    /\ ticks = 2
    /\ timeLeft = initialTotalSeconds - 2
    /\ interval = 1


-----------------------------------------------------------------------------
(* The Content Filter algorithm as the specification writes it *)

\* steps 1-11 of the Content Filter: the flags of a candidate url for a
\* query and a role
ContentFilter(candidateUrl, q, r) ==
    LET url == toLowerCase(candidateUrl)
        isTrusted == \E mark \in {".gov", ".edu", ".org"} : includes(url, mark)
        isBlockedByTLD == \E tld \in BLOCKED_TLDS : endsWith(url, tld)
        isBlockedBySite == \E site \in BLOCKED_SITES : includes(url, site)
        isVideoHost == \E host \in {"youtube.com", "youtu.be"} : includes(url, host)
        isLearningPath == includes(url, "youtube.com/learning")
        roleAllowsVideo == r \in {"STUDENT", "TEACHER"}
        queryIsExplicitVideoIntent ==
            \E word \in {"video", "youtube"} : includes(toLowerCase(q), word)
        videoException ==
            roleAllowsVideo /\ (isLearningPath \/ queryIsExplicitVideoIntent)
        isBlocked ==
            isBlockedByTLD \/ isBlockedBySite \/ (isVideoHost /\ ~videoException)
    IN  [isTrusted |-> isTrusted,
         isBlocked |-> isBlocked,
         blockReason |-> IF isBlocked THEN "Restricted by focus filter." ELSE ""]

\* C20: for every url, query and role of the bounded sets, the flags the
\* search handler puts on a result equal those of the Content Filter
\* algorithm: isBlocked, isTrusted, and blockReason, which is the fixed
\* sentence exactly when the result is blocked and empty otherwise.
C20_FlagsMatchContentFilter ==
    searchOp.op = "return" =>
        \A i \in DOMAIN allResults :
            LET res == allResults[i]
                flags == ContentFilter(res.url, searchOp.q, role)
            IN  /\ res.isBlocked = flags.isBlocked
                /\ res.isTrusted = flags.isTrusted
                /\ res.blockReason = flags.blockReason
                /\ res.blockReason = "Restricted by focus filter." <=> res.isBlocked
                /\ res.blockReason = "" <=> ~res.isBlocked

\* a RESEARCHER asked for video and was offered a trusted url on a blocked
\* site: shown trusted and blocked at once, with the reason
C20_Witness ==
    /\ ResultsShown
    /\ role = "RESEARCHER"
    /\ searchOp.q = "My YOUTUBE"
    /\ allResults[1].url = "https://facebook.com/videos.org"
    /\ allResults[1].isTrusted
    /\ allResults[1].isBlocked
    /\ allResults[1].blockReason = "Restricted by focus filter."


-----------------------------------------------------------------------------
(* The classified result set *)

\* the fields of a result that come from the oracle
LinkOf(res) ==
    [title |-> res.title, url |-> res.url, snippet |-> res.snippet,
     thumbnailUrl |-> res.thumbnailUrl]

\* C21: when a validated reply with its links comes back, the result set has
\* one entry per suggested link, in the order of the reply, each with the
\* link's title, url, snippet and thumbnailUrl as the oracle gave them and
\* only the three derived flags added; nothing of an earlier result set stays.
C21_ResultsMirrorReply ==
    [][ (pending' # pending /\ searchOp'.op = "return"
            /\ searchOp'.resp.kind = "reply" /\ searchOp'.resp.isValid
            /\ searchOp'.resp.hasLinks) =>
           LET links == searchOp'.resp.suggestedLinks IN
           /\ Len(allResults') = Len(links)
           /\ \A i \in 1..Len(links) :
                  /\ LinkOf(allResults'[i]) = links[i]
                  /\ DOMAIN allResults'[i] =
                         DOMAIN links[i] \cup {"isTrusted", "isBlocked", "blockReason"} ]_vars

\* the second search returned three links, the first of them with upper-case
\* letters in its url: they are shown in the order of the reply, case kept
C21_Witness ==
    /\ searchOp.op = "return"
    /\ searchOp.id = 2
    /\ searchOp.resp.suggestedLinks = <<LinkXyz, LinkLearning, LinkEdu>>
    /\ Len(allResults) = 3
    /\ allResults[1].url = "https://ai.example.XYZ"
    /\ allResults[2].url = "https://youtube.com/learning"
    /\ allResults[3].url = "https://MIT.edu/ai"


-----------------------------------------------------------------------------
(* The total of a session *)

\* C22: the total is written only by a start that is accepted, which sets it
\* to the seconds of the chosen duration, above zero; a tick, a pause request,
\* its verification, a resume and the end of the session leave it as it is,
\* and so does a start that is turned away.
C22_TotalSetOnlyByStart ==
    [][ /\ initialTotalSeconds' # initialTotalSeconds =>
               /\ timerOp' = "start"
               /\ timerSignals' = {"onStartLock"}
               /\ SessionState \in {"Idle", "Ended"}
               /\ initialTotalSeconds' = TotalSeconds(durationHours, durationMinutes)
               /\ initialTotalSeconds' > 0
        /\ timerOp' \in {"tick", "pauseRequest", "verifyOk", "verifyFail", "resume"} =>
               initialTotalSeconds' = initialTotalSeconds
        /\ "onTimerEnd" \in timerSignals' =>
               initialTotalSeconds' = initialTotalSeconds
        /\ SessionState \in {"Locked", "Paused"} =>
               initialTotalSeconds' = initialTotalSeconds ]_vars

\* a session of one minute has run out after sixty ticks: the total is still
\* the sixty seconds given at the start
C22_Witness ==
    /\ SessionState = "Ended"
    /\ "onTimerEnd" \in timerSignals
    /\ initialTotalSeconds = 60
    /\ ticks = 60
    /\ timeLeft = 0


-----------------------------------------------------------------------------
(* A pause that is asked for and not yet granted *)

\* C23: while a pause request waits for its verification the session is
\* Locked with its interval live, every tick takes one second off, and the
\* tick on the last second ends the session and gives the end signal although
\* the verification has not answered.
C23_PendingPauseKeepsTicking ==
    [][ /\ pausePending =>
               /\ SessionState = "Locked"
               /\ interval = 1
        /\ (pausePending /\ timerOp' = "tick") =>
               /\ timeLeft' = timeLeft - 1
               /\ ticks' = ticks + 1
        /\ (pausePending /\ timerOp' = "tick" /\ timeLeft = 1) =>
               /\ SessionState' = "Ended"
               /\ timeLeft' = 0
               /\ timerSignals' = {"onTimerEnd"}
               /\ timerEnds' = timerEnds + 1 ]_vars

\* a pause was asked for, ticks have gone on since, and the session is on its
\* last second with the interval live: the next tick ends it, verification
\* still unanswered
C23_Witness ==
    /\ pausePending
    /\ ~isPaused
    /\ timerOp = "tick"
    /\ timeLeft = 1
    /\ interval = 1
    /\ ticks = initialTotalSeconds - 1


-----------------------------------------------------------------------------
(* Termination of a session *)

-----------------------------------------------------------------------------
(* The loading flag *)

\* C25: loading is true exactly while a request to the oracle is awaited: true
\* from the issue of an accepted search, false once nothing is awaited, and
\* never false while some search still waits for its reply.
C25_LoadingWhileOutstanding ==
    loading <=> pending # {}


-----------------------------------------------------------------------------
(* Error and results *)

\* C26: an error message and a non-empty result set are never on screen
\* together: whenever error is not null the result set is empty.
C26_ErrorExcludesResults ==
    error # Null => allResults = <<>>

====
